---- MODULE Spec2Model ----
(***************************************************************************)
(* Portfolio-manager backend: the asset transaction engine (buyAsset,      *)
(* sellAsset, updateAssetPrices), the cash operations of the portfolio     *)
(* controller (addCashToPortfolio, withdrawCashFromPortfolio) and the      *)
(* price lookup getMarketPrice, over a relational store (Prisma on         *)
(* PostgreSQL, schema.prisma).                                             *)
(*                                                                         *)
(* Every request handler is an async function; each `await` on the store   *)
(* or on the quote provider is a point where other requests run.  A        *)
(* handler is modelled as one action per await; the synchronous code       *)
(* after an await belongs to the action of that await.                     *)
(*                                                                         *)
(* Money and quantities are Float columns; they are modelled by integers   *)
(* and the average purchase price by an exact fraction <<num, den>>.       *)
(***************************************************************************)
EXTENDS Integers, Sequences, FiniteSets, Bags, TLC

(* ------------------------------ bounds --------------------------------- *)
\* a request is sent against a portfolio only while the portfolio has fewer
\* transaction records than this
MaxLog == 3
\* the same, for the requests of SpecTrade
MaxTradeLog == 2
\* the same, when the requests are sent one after another
MaxSeqLog == 4
\* the same, for the requests of SpecAccess
MaxAccessLog == 3
\* the same, for the requests of SpecLedger
MaxLedgerLog == 3
\* emitPortfolioUpdate is called for a portfolio at most this many times
MaxPublish == 1
\* a session sends subscribe:portfolio only while its verifications in
\* flight and the events it has received are fewer than this
MaxInbox == 2
\* the same, for the requests of SpecRevalue
MaxRevalueLog == 3
\* deposits are sent only while they leave the cash at most this
MaxCash == 7
\* fetchAllMarketData is called at most this many times
MaxPasses == 2
\* the same as MaxLog, for the requests of SpecPrice
MaxPriceLog == 3
\* the same, for the requests of SpecCash
MaxCashLog == 3
\* concurrent request slots (one task per inbound request)
Reqs == {"r1", "r2"}
Users == {"u1", "u2"}
\* socket.io connections
Sessions == {"s1", "s2"}
Portfolios == {"p1", "p2"}
\* the symbols with a MarketData row or a quote at the provider
Symbols == {"XYZ", "ABC"}
\* the symbol of the buy requests of Spec, SpecSeq and SpecBuys
BuySymbols == {"XYZ"}
\* request body values: 0 stands for a missing (falsy) field
Quantities == {0, 2, 3}
Prices == {0, 1}
Amounts == {0, 1}
Types == {"STOCK"}
\* the quantities of the requests of SpecAccess
AccessQuantities == {0, 1}
\* prices the quote provider may answer with
ProviderPrices == {2}
\* cash every portfolio was created with (createPortfolio, body.cash)
InitialCash == 6

(* --------------------------- program constants ------------------------- *)
\* 5 * 60 * 1000 ms, in minutes
FreshMinutes == 5

(* ------------------------------ helpers -------------------------------- *)
Abs(n) == IF n < 0 THEN 0 - n ELSE n

Sgn(n) == IF n < 0 THEN 0 - 1 ELSE IF n > 0 THEN 1 ELSE 0

RECURSIVE GCD(_, _)
GCD(a, b) == IF b = 0 THEN a ELSE GCD(b, a % b)

\* a fraction in lowest terms with a positive denominator; a zero
\* denominator is a non-finite Float (Infinity, -Infinity, NaN)
Frac(n, d) ==
  IF d = 0 THEN <<Sgn(n), 0>>
  ELSE LET g == GCD(Abs(n), Abs(d))
       IN  <<Sgn(d) * (n \div g), Abs(d) \div g>>

\* userId column of the portfolio rows
Owner == [p \in Portfolios |-> IF p = "p1" THEN "u1" ELSE "u2"]

NoAsset == [id |-> 0, portfolioId |-> "", symbol |-> "", quantity |-> 0,
            purchasePrice |-> <<0, 1>>, currentPrice |-> 0]

NoData == [found |-> FALSE, lastPrice |-> 0, age |-> 0]

\* a session that is not connected: no user, in no room, nothing received;
\* left holds the portfolios the session has sent unsubscribe for after its
\* last subscribe for them
NoSocket == [connected |-> FALSE, userId |-> "", rooms |-> {},
             pending |-> EmptyBag, verified |-> {}, left |-> {},
             inbox |-> EmptyBag]

\* a request slot: the position in the handler, the request, the handler's
\* locals that are still read later on, the response, and the tables the
\* request has written and whether one of its writes failed for a reason
\* outside the program (connection lost, timeout)
IdleReq == [pc |-> "idle", op |-> "", userId |-> "", portfolioId |-> "",
            symbol |-> "", assetId |-> 0, quantity |-> 0,
            currentPrice |-> 0, cash |-> 0, asset |-> NoAsset,
            marketData |-> NoData, jobs |-> {}, res |-> "", wrote |-> {},
            fault |-> FALSE]

VARIABLES
  portfolio,   \* table Portfolio: [Portfolios -> [userId, cash, totalValue]]
  assets,      \* table Asset: set of rows
  txlog,       \* table Transaction: bag of rows (id and timestamp left out)
  marketData,  \* table MarketData: [Symbols -> [found, lastPrice, age]], where
               \* age is Date.now() - updatedAt in minutes; ages of
               \* FreshMinutes and more are not told apart
  nextId,      \* next fresh Asset id (uuid)
  req,         \* the request in each slot: position, locals, response
  spent,       \* per portfolio, sum of totalCost over the buys answered 200
  sockets,     \* the socket.io sessions: [Sessions -> [connected, userId,
               \* rooms, pending, verified, inbox]]
  published,   \* per portfolio, the number of emitPortfolioUpdate calls that
               \* have emitted
  updateInterval, \* marketDataService: the module variable updateInterval, 0
               \* while undefined, else the id of the timer stored in it
  timers,      \* the ids of the setInterval timers that are active
  passes,      \* the calls of fetchAllMarketData, in the order they were
               \* made: sequence of [origin, i, pc, price, results, attempts]
  stopped      \* stopMarketDataUpdates was called and
               \* startMarketDataUpdates was not called since

vars == <<portfolio, assets, txlog, marketData, nextId, req, spent, sockets,
          published, updateInterval, timers, passes, stopped>>

\* the state of the websocket service
ioVars == <<sockets, published>>

\* the state of the market data service
syncVars == <<updateInterval, timers, passes, stopped>>

(* ------------------------------ the store ------------------------------ *)
\* the store as one value, so that a unit of writes can be rolled back
Store == [portfolio |-> portfolio, assets |-> assets, txlog |-> txlog,
          nextId |-> nextId, ok |-> TRUE]

AssetById(as, id) ==
  IF \E a \in as : a.id = id THEN CHOOSE a \in as : a.id = id ELSE NoAsset

\* prisma.asset.findFirst({where: {portfolioId, symbol}})
\* without orderBy the store may return any matching row
AssetsBySymbol(as, pid, sym) ==
  {a \in as : a.portfolioId = pid /\ a.symbol = sym}

\* prisma.asset.update: throws when the row does not exist
AssetUpdate(s, id, row, failed) ==
  IF ~s.ok THEN s
  ELSE IF failed \/ AssetById(s.assets, id).id = 0 THEN [s EXCEPT !.ok = FALSE]
  ELSE [s EXCEPT !.assets = (@ \ {AssetById(@, id)}) \cup {row}]

\* prisma.asset.create: the row gets a fresh id
AssetCreate(s, row, failed) ==
  IF ~s.ok THEN s
  ELSE IF failed THEN [s EXCEPT !.ok = FALSE]
  ELSE [s EXCEPT !.assets = @ \cup {[row EXCEPT !.id = s.nextId]},
                 !.nextId = @ + 1]

\* prisma.asset.delete; Transaction.asset is an optional relation without
\* onDelete, so the referencing rows get assetId = NULL (SetNull)
AssetDelete(s, id, failed) ==
  IF ~s.ok THEN s
  ELSE IF failed \/ AssetById(s.assets, id).id = 0 THEN [s EXCEPT !.ok = FALSE]
  ELSE [s EXCEPT !.assets = @ \ {AssetById(@, id)},
                 !.txlog = BagOfAll(LAMBDA t : IF t.assetId = id
                                               THEN [t EXCEPT !.assetId = 0]
                                               ELSE t, @)]

\* prisma.portfolio.update with cash / totalValue increments
PortfolioUpdate(s, pid, dCash, dTotal, failed) ==
  IF ~s.ok THEN s
  ELSE IF failed THEN [s EXCEPT !.ok = FALSE]
  ELSE [s EXCEPT !.portfolio[pid].cash = @ + dCash,
                 !.portfolio[pid].totalValue = @ + dTotal]

\* the insert without the foreign key on assetId
TransactionCreate_noForeignKey(s, rec, failed) ==
  IF ~s.ok THEN s
  ELSE IF failed THEN [s EXCEPT !.ok = FALSE]
  ELSE [s EXCEPT !.txlog = @ (+) SetToBag({rec})]

\* prisma.transaction.create: assetId is a foreign key into Asset
TransactionCreate(s, rec, failed) ==
  IF ~s.ok THEN s
  ELSE IF failed \/ (rec.assetId # 0 /\ AssetById(s.assets, rec.assetId).id = 0)
       THEN [s EXCEPT !.ok = FALSE]
  ELSE [s EXCEPT !.txlog = @ (+) SetToBag({rec})]

TxRec(type, quantity, price, totalAmount, userId, pid, assetId) ==
  [type |-> type, quantity |-> quantity, price |-> price,
   totalAmount |-> totalAmount, userId |-> userId, portfolioId |-> pid,
   assetId |-> assetId]

\* the writes run one by one on the store, without a transaction around them
prisma_transaction_noRollback(before, after) == after

\* prisma.$transaction(async (prisma) => {...}): all writes or none
prisma_transaction(before, after) == IF after.ok THEN after ELSE before

\* the store variables take the values of s
Commit(s) ==
  /\ portfolio' = s.portfolio
  /\ assets' = s.assets
  /\ txlog' = s.txlog
  /\ nextId' = s.nextId

\* return res.status(...).json(...): the request is answered and the
\* handler's locals are gone; the request itself and what it wrote are kept
Answered(q, kind) ==
  [IdleReq EXCEPT !.pc = "done", !.res = kind, !.op = q.op,
     !.userId = q.userId, !.portfolioId = q.portfolioId,
     !.symbol = q.symbol, !.quantity = q.quantity, !.wrote = q.wrote]

Respond(r, kind) == Answered(req[r], kind)

\* what the request has written, by table
Wrote(s) ==
  (IF s.portfolio # portfolio THEN {"Portfolio"} ELSE {}) \cup
  (IF s.assets # assets THEN {"Asset"} ELSE {}) \cup
  (IF s.txlog # txlog THEN {"Transaction"} ELSE {})

(* --------------------------- getMarketPrice ---------------------------- *)
\* a quote of exactly the limit taken as fresh
IsFresh_inclusive(md) == md.found /\ md.age <= FreshMinutes

\* marketData && Date.now() - marketData.updatedAt.getTime() < 5 * 60 * 1000
IsFresh(md) == md.found /\ md.age < FreshMinutes


\* the Transaction rows of portfolio p
LogOf(p) == [t \in {x \in BagToSet(txlog) : x.portfolioId = p} |-> txlog[t]]

\* portfolio p has fewer than max transaction records
Short(p, max) == BagCardinality(LogOf(p)) < max

Unchanged(r, q) ==
  /\ req' = [req EXCEPT ![r] = q]
  /\ UNCHANGED <<portfolio, assets, txlog, marketData, nextId, spent,
                 ioVars, syncVars>>

\* the cash compared with the unit price instead of the total cost
BuyCheckCash_unitPrice(q, price) ==
  IF q.cash < price
  THEN Answered(q, "InsufficientFunds")
  ELSE [q EXCEPT !.pc = "findAsset", !.currentPrice = price, !.cash = 0,
                 !.marketData = NoData]

\* portfolio.cash < totalCost, on the portfolio read by findFirst
BuyCheckCash(q, price) ==
  IF q.cash < price * q.quantity
  THEN Answered(q, "InsufficientFunds")
  ELSE [q EXCEPT !.pc = "findAsset", !.currentPrice = price, !.cash = 0,
                 !.marketData = NoData]

\* the caller of getMarketPrice resumes with the price
Priced(q, price) ==
  IF q.op = "buy" THEN BuyCheckCash(q, price)
  ELSE [q EXCEPT !.pc = "transaction", !.currentPrice = price,
                 !.marketData = NoData]

\* the caller's catch: 400 'Could not retrieve market price'
PriceFailed(q) == Answered(q, "PriceUnavailable")

\* getMarketPrice from the provider's answer on: the payload test,
\* prisma.marketData.upsert and the stale fallback.  md is the row read by
\* findUnique before the call.  The result says whether the function threw,
\* the price returned and whether the upsert was done.
getMarketPrice(md, answer, price, failed) ==
  CASE answer = "ok" ->
         [thrown |-> failed, price |-> price, upsert |-> ~failed]
    \* the payload has no '05. price'
    [] answer = "noPrice" ->
         [thrown |-> ~md.found, price |-> md.lastPrice, upsert |-> FALSE]
    \* '10. change percent' is missing: .replace on undefined throws
    [] answer = "noPercent" ->
         [thrown |-> TRUE, price |-> 0, upsert |-> FALSE]
    \* axios.get rejects
    [] answer = "error" ->
         [thrown |-> TRUE, price |-> 0, upsert |-> FALSE]

Answers == {"ok", "noPrice", "noPercent", "error"}

\* prisma.marketData.upsert({where: {symbol}, ...})
Upsert(symbol, price) ==
  [marketData EXCEPT ![symbol] =
     [found |-> TRUE, lastPrice |-> price, age |-> 0]]

\* buyAsset / sellAsset inside getMarketPrice: prisma.marketData.findUnique
\* and the freshness test
getMarketPrice_findUnique(r) ==
  /\ req[r].pc = "findUnique"
  /\ LET q == req[r]
         md == marketData[q.symbol]
     IN  Unchanged(r, IF IsFresh(md) THEN Priced(q, md.lastPrice)
                      ELSE [q EXCEPT !.pc = "axiosGet", !.marketData = md])

\* buyAsset / sellAsset inside getMarketPrice: the provider answers
getMarketPrice_axiosGet(r, answer, price, failed) ==
  /\ req[r].pc = "axiosGet"
  /\ LET q == req[r]
         g == getMarketPrice(q.marketData, answer, price, failed)
         q1 == IF g.thrown THEN PriceFailed(q) ELSE Priced(q, g.price)
     IN  /\ marketData' = IF g.upsert THEN Upsert(q.symbol, g.price)
                          ELSE marketData
         /\ req' = [req EXCEPT ![r] =
              [q1 EXCEPT !.wrote = IF g.upsert THEN @ \cup {"MarketData"}
                                   ELSE @,
                         !.fault = (answer = "ok" /\ failed)]]
         /\ UNCHANGED <<portfolio, assets, txlog, nextId, spent,
                        ioVars, syncVars>>

(* ------------------------------- buyAsset ------------------------------ *)
\* the portfolio looked up by id alone, without userId
buyAsset_findPortfolio_anyUser(r, u, p, symbol, type, quantity, price) ==
  /\ req[r].pc = "idle"
  /\ LET q == [IdleReq EXCEPT !.op = "buy", !.userId = u, !.portfolioId = p,
                 !.symbol = symbol, !.quantity = quantity,
                 !.cash = portfolio[p].cash]
     IN  Unchanged(r,
           IF symbol = "" \/ type = "" \/ quantity <= 0
           THEN Answered(q, "InvalidInput")
           ELSE IF price = 0 THEN [q EXCEPT !.pc = "findUnique"]
           ELSE BuyCheckCash(q, price))

\* the request arrives: input validation, then
\* prisma.portfolio.findFirst({id, userId}), then the price if supplied and
\* the cash check
buyAsset_findPortfolio(r, u, p, symbol, type, quantity, price) ==
  /\ req[r].pc = "idle"
  /\ LET q == [IdleReq EXCEPT !.op = "buy", !.userId = u, !.portfolioId = p,
                 !.symbol = symbol, !.quantity = quantity,
                 !.cash = portfolio[p].cash]
     IN  Unchanged(r,
           IF symbol = "" \/ type = "" \/ quantity <= 0
           THEN Answered(q, "InvalidInput")
           ELSE IF portfolio[p].userId # u THEN Answered(q, "NotFound")
           ELSE IF price = 0 THEN [q EXCEPT !.pc = "findUnique"]
           ELSE BuyCheckCash(q, price))

\* prisma.asset.findFirst({portfolioId, symbol})
buyAsset_findAsset(r, a) ==
  /\ req[r].pc = "findAsset" /\ req[r].op = "buy"
  /\ LET q == req[r]
         found == AssetsBySymbol(assets, q.portfolioId, q.symbol)
     IN  /\ IF found = {} THEN a = NoAsset ELSE a \in found
         /\ Unchanged(r, [q EXCEPT !.pc = "transaction", !.asset = a])

\* the writes of the buy, on store s; fail names the write that throws
BuyWrites(s, q, fail) ==
  LET totalCost == q.currentPrice * q.quantity
      existingAsset == q.asset
      newTotalQuantity == existingAsset.quantity + q.quantity
      newAveragePrice ==
        Frac(existingAsset.purchasePrice[1] * existingAsset.quantity
               + totalCost * existingAsset.purchasePrice[2],
             existingAsset.purchasePrice[2] * newTotalQuantity)
      s1 == IF existingAsset.id # 0
            THEN AssetUpdate(s, existingAsset.id,
                   [AssetById(s.assets, existingAsset.id) EXCEPT
                      !.quantity = newTotalQuantity,
                      !.purchasePrice = newAveragePrice,
                      !.currentPrice = q.currentPrice], fail = 1)
            ELSE AssetCreate(s,
                   [id |-> 0, portfolioId |-> q.portfolioId,
                    symbol |-> q.symbol, quantity |-> q.quantity,
                    purchasePrice |-> <<q.currentPrice, 1>>,
                    currentPrice |-> q.currentPrice], fail = 1)
      assetId == IF existingAsset.id # 0 THEN existingAsset.id ELSE s.nextId
      s2 == PortfolioUpdate(s1, q.portfolioId, 0 - totalCost, 0, fail = 2)
  IN  TransactionCreate(s2, TxRec("BUY", q.quantity, q.currentPrice, totalCost,
                                  q.userId, q.portfolioId, assetId), fail = 3)

\* the buy writes first and checks the balance afterwards
buyAsset_transaction_checkAfter(r, fail) ==
  /\ req[r].pc = "transaction" /\ req[r].op = "buy"
  /\ LET q == req[r]
         w == BuyWrites(Store, q, fail)
         s == prisma_transaction(Store, w)
         short == s.portfolio[q.portfolioId].cash < 0
     IN  /\ Commit(s)
         /\ req' = [req EXCEPT ![r] =
              [Answered(q, IF ~w.ok THEN "Internal"
                           ELSE IF short THEN "InsufficientFunds" ELSE "OK")
                 EXCEPT !.wrote = @ \cup Wrote(s), !.fault = (fail # 0)]]
         /\ spent' = IF w.ok /\ ~short
                     THEN [spent EXCEPT ![q.portfolioId] =
                             @ + q.currentPrice * q.quantity]
                     ELSE spent
         /\ UNCHANGED <<marketData, ioVars, syncVars>>

\* prisma.$transaction of the buy and the response
buyAsset_transaction(r, fail) ==
  /\ req[r].pc = "transaction" /\ req[r].op = "buy"
  /\ LET q == req[r]
         w == BuyWrites(Store, q, fail)
         s == prisma_transaction(Store, w)
     IN  /\ Commit(s)
         /\ req' = [req EXCEPT ![r] =
              [Answered(q, IF w.ok THEN "OK" ELSE "Internal") EXCEPT
                 !.wrote = @ \cup Wrote(s), !.fault = (fail # 0)]]
         /\ spent' = IF w.ok
                     THEN [spent EXCEPT ![q.portfolioId] =
                             @ + q.currentPrice * q.quantity]
                     ELSE spent
         /\ UNCHANGED <<marketData, ioVars, syncVars>>

(* ------------------------------ sellAsset ------------------------------ *)
\* the request arrives: input validation, then prisma.portfolio.findFirst
sellAsset_findPortfolio(r, u, p, assetId, quantity, price) ==
  /\ req[r].pc = "idle"
  /\ LET q == [IdleReq EXCEPT !.op = "sell", !.userId = u, !.portfolioId = p,
                 !.assetId = assetId, !.quantity = quantity]
     IN  Unchanged(r,
           IF quantity <= 0 THEN Answered(q, "InvalidInput")
           ELSE IF portfolio[p].userId # u THEN Answered(q, "NotFound")
           ELSE [q EXCEPT !.pc = "findAsset", !.currentPrice = price])

\* the supplied price is stored in the row before the quantity check
sellAsset_findAsset_priceFirst(r) ==
  /\ req[r].pc = "findAsset" /\ req[r].op = "sell"
  /\ LET q == req[r]
         row == AssetById(assets, q.assetId)
         asset == IF row.portfolioId = q.portfolioId THEN row ELSE NoAsset
         s == IF asset.id # 0 /\ q.currentPrice # 0
              THEN AssetUpdate(Store, asset.id,
                     [asset EXCEPT !.currentPrice = q.currentPrice], FALSE)
              ELSE Store
         q1 == [q EXCEPT !.asset = asset, !.symbol = asset.symbol,
                         !.wrote = @ \cup Wrote(s)]
     IN  /\ Commit(s)
         /\ req' = [req EXCEPT ![r] =
              IF asset.id = 0 THEN Answered(q1, "NotFound")
              ELSE IF asset.quantity < q.quantity
              THEN Answered(q1, "InsufficientHoldings")
              ELSE IF q.currentPrice = 0 THEN [q1 EXCEPT !.pc = "findUnique"]
              ELSE [q1 EXCEPT !.pc = "transaction"]]
         /\ UNCHANGED <<marketData, spent, ioVars, syncVars>>

\* prisma.asset.findFirst({id, portfolioId}), the quantity check and the
\* price if supplied
sellAsset_findAsset(r) ==
  /\ req[r].pc = "findAsset" /\ req[r].op = "sell"
  /\ LET q == req[r]
         row == AssetById(assets, q.assetId)
         asset == IF row.portfolioId = q.portfolioId THEN row ELSE NoAsset
         q1 == [q EXCEPT !.asset = asset, !.symbol = asset.symbol]
     IN  Unchanged(r,
           IF asset.id = 0 THEN Answered(q, "NotFound")
           ELSE IF asset.quantity < q.quantity
           THEN Answered(q, "InsufficientHoldings")
           ELSE IF q.currentPrice = 0 THEN [q1 EXCEPT !.pc = "findUnique"]
           ELSE [q1 EXCEPT !.pc = "transaction"])

\* the writes of the sell, on store s; fail names the write that throws
SellWrites(s, q, fail) ==
  LET totalAmount == q.currentPrice * q.quantity
      asset == q.asset
      s1 == IF asset.quantity = q.quantity
            THEN AssetDelete(s, q.assetId, fail = 1)
            ELSE AssetUpdate(s, q.assetId,
                   [AssetById(s.assets, q.assetId) EXCEPT
                      !.quantity = @ - q.quantity,
                      !.currentPrice = q.currentPrice], fail = 1)
      s2 == PortfolioUpdate(s1, q.portfolioId, totalAmount, 0, fail = 2)
  IN  TransactionCreate(s2, TxRec("SELL", q.quantity, q.currentPrice,
                                  totalAmount, q.userId, q.portfolioId,
                                  q.assetId), fail = 3)

\* prisma.$transaction of the sell and the response
sellAsset_transaction(r, fail) ==
  /\ req[r].pc = "transaction" /\ req[r].op = "sell"
  /\ LET q == req[r]
         w == SellWrites(Store, q, fail)
         s == prisma_transaction(Store, w)
     IN  /\ Commit(s)
         /\ req' = [req EXCEPT ![r] =
              [Answered(q, IF w.ok THEN "OK" ELSE "Internal") EXCEPT
                 !.wrote = @ \cup Wrote(s), !.fault = (fail # 0)]]
         /\ UNCHANGED <<marketData, spent, ioVars, syncVars>>

(* -------------------------- addCashToPortfolio ------------------------- *)
\* the request arrives: amount validation, then prisma.portfolio.findFirst
addCashToPortfolio_findPortfolio(r, u, p, amount) ==
  /\ req[r].pc = "idle"
  /\ LET q == [IdleReq EXCEPT !.op = "deposit", !.userId = u,
                 !.portfolioId = p, !.quantity = amount]
     IN  Unchanged(r,
           IF amount <= 0 THEN Answered(q, "InvalidInput")
           ELSE IF portfolio[p].userId # u THEN Answered(q, "NotFound")
           ELSE [q EXCEPT !.pc = "update"])

\* prisma.portfolio.update({cash: {increment}, totalValue: {increment}})
addCashToPortfolio_update(r, failed) ==
  /\ req[r].pc = "update" /\ req[r].op = "deposit"
  /\ LET q == req[r]
         s == PortfolioUpdate(Store, q.portfolioId, q.quantity, q.quantity,
                              failed)
     IN  /\ Commit(s)
         /\ req' = [req EXCEPT ![r] =
              IF s.ok THEN [q EXCEPT !.pc = "create",
                                     !.wrote = @ \cup Wrote(s)]
              ELSE [Answered(q, "Internal") EXCEPT !.fault = failed]]
         /\ UNCHANGED <<marketData, spent, ioVars, syncVars>>

\* prisma.transaction.create({type: 'DEPOSIT', ...}) and the response
addCashToPortfolio_create(r, failed) ==
  /\ req[r].pc = "create" /\ req[r].op = "deposit"
  /\ LET q == req[r]
         s == TransactionCreate(Store,
                TxRec("DEPOSIT", 1, q.quantity, q.quantity, q.userId,
                      q.portfolioId, 0), failed)
     IN  /\ Commit(s)
         /\ req' = [req EXCEPT ![r] =
              [Answered(q, IF s.ok THEN "OK" ELSE "Internal") EXCEPT
                 !.wrote = @ \cup Wrote(s), !.fault = failed]]
         /\ UNCHANGED <<marketData, spent, ioVars, syncVars>>

(* ---------------------- withdrawCashFromPortfolio ---------------------- *)
\* the request arrives: amount validation, prisma.portfolio.findFirst and
\* the balance check portfolio.cash < amount
withdrawCashFromPortfolio_findPortfolio(r, u, p, amount) ==
  /\ req[r].pc = "idle"
  /\ LET q == [IdleReq EXCEPT !.op = "withdraw", !.userId = u,
                 !.portfolioId = p, !.quantity = amount]
     IN  Unchanged(r,
           IF amount <= 0 THEN Answered(q, "InvalidInput")
           ELSE IF portfolio[p].userId # u THEN Answered(q, "NotFound")
           ELSE IF portfolio[p].cash < amount
           THEN Answered(q, "InsufficientFunds")
           ELSE [q EXCEPT !.pc = "update"])

\* prisma.portfolio.update({cash: {decrement}, totalValue: {decrement}})
withdrawCashFromPortfolio_update(r, failed) ==
  /\ req[r].pc = "update" /\ req[r].op = "withdraw"
  /\ LET q == req[r]
         s == PortfolioUpdate(Store, q.portfolioId, 0 - q.quantity,
                              0 - q.quantity, failed)
     IN  /\ Commit(s)
         /\ req' = [req EXCEPT ![r] =
              IF s.ok THEN [q EXCEPT !.pc = "create",
                                     !.wrote = @ \cup Wrote(s)]
              ELSE [Answered(q, "Internal") EXCEPT !.fault = failed]]
         /\ UNCHANGED <<marketData, spent, ioVars, syncVars>>

\* prisma.transaction.create({type: 'WITHDRAWAL', ...}) and the response
withdrawCashFromPortfolio_create(r, failed) ==
  /\ req[r].pc = "create" /\ req[r].op = "withdraw"
  /\ LET q == req[r]
         s == TransactionCreate(Store,
                TxRec("WITHDRAWAL", 1, q.quantity, q.quantity, q.userId,
                      q.portfolioId, 0), failed)
     IN  /\ Commit(s)
         /\ req' = [req EXCEPT ![r] =
              [Answered(q, IF s.ok THEN "OK" ELSE "Internal") EXCEPT
                 !.wrote = @ \cup Wrote(s), !.fault = failed]]
         /\ UNCHANGED <<marketData, spent, ioVars, syncVars>>

(* --------------------------- updateAssetPrices ------------------------- *)
RECURSIVE SumValue(_)
\* updatedAssets.reduce((sum, asset) => sum + asset.currentPrice *
\* asset.quantity, 0)
SumValue(rows) ==
  IF rows = {} THEN 0
  ELSE LET a == CHOOSE x \in rows : TRUE
       IN  a.currentPrice * a.quantity + SumValue(rows \ {a})

\* the request arrives: prisma.portfolio.findFirst({id, userId}, include
\* assets); one job per asset row for the Promise.all
updateAssetPrices_findPortfolio(r, u, p) ==
  /\ req[r].pc = "idle"
  /\ LET q == [IdleReq EXCEPT !.op = "revalue", !.userId = u,
                 !.portfolioId = p, !.cash = portfolio[p].cash]
     IN  Unchanged(r,
           IF portfolio[p].userId # u THEN Answered(q, "NotFound")
           ELSE [q EXCEPT !.pc = "prices",
                   !.jobs = {[pc |-> "findUnique", asset |-> a,
                              marketData |-> NoData, price |-> 0,
                              caught |-> ""] :
                             a \in {x \in assets : x.portfolioId = p}}])

Job(r, j) == req[r].pc = "prices" /\ j \in req[r].jobs

SetJob(q, j, j1) == [q EXCEPT !.jobs = (@ \ {j}) \cup {j1}]

\* the job of one asset has its result row; caught names the await whose
\* throw the catch of the job has caught, if any
JobDone(j, row, caught) ==
  [pc |-> "done", asset |-> row, marketData |-> NoData, price |-> 0,
   caught |-> caught]

\* one asset, inside getMarketPrice: findUnique and the freshness test
updateAssetPrices_findUnique(r, j) ==
  /\ Job(r, j) /\ j.pc = "findUnique"
  /\ LET md == marketData[j.asset.symbol] IN
     Unchanged(r, SetJob(req[r], j,
       IF IsFresh(md) THEN [j EXCEPT !.pc = "update", !.price = md.lastPrice]
       ELSE [j EXCEPT !.pc = "axiosGet", !.marketData = md]))

\* the throw of a lookup is not caught in the job: Promise.all rejects and
\* the handler answers 500
updateAssetPrices_axiosGet_rethrow(r, j, answer, price, failed) ==
  /\ Job(r, j) /\ j.pc = "axiosGet"
  /\ LET g == getMarketPrice(j.marketData, answer, price, failed)
         q1 == IF g.thrown THEN Answered(req[r], "Internal")
               ELSE SetJob(req[r], j,
                      [j EXCEPT !.pc = "update", !.price = g.price,
                                !.marketData = NoData])
     IN  /\ marketData' = IF g.upsert THEN Upsert(j.asset.symbol, g.price)
                          ELSE marketData
         /\ req' = [req EXCEPT ![r] =
              [q1 EXCEPT !.wrote = IF g.upsert THEN @ \cup {"MarketData"}
                                   ELSE @]]
         /\ UNCHANGED <<portfolio, assets, txlog, nextId, spent,
                        ioVars, syncVars>>

\* one asset, inside getMarketPrice: the provider answers; a throw is caught
\* and the asset is returned unchanged
updateAssetPrices_axiosGet(r, j, answer, price, failed) ==
  /\ Job(r, j) /\ j.pc = "axiosGet"
  /\ LET g == getMarketPrice(j.marketData, answer, price, failed)
         q1 == SetJob(req[r], j,
                 IF g.thrown THEN JobDone(j, j.asset, "getMarketPrice")
                 ELSE [j EXCEPT !.pc = "update", !.price = g.price,
                                !.marketData = NoData])
     IN  /\ marketData' = IF g.upsert THEN Upsert(j.asset.symbol, g.price)
                          ELSE marketData
         /\ req' = [req EXCEPT ![r] =
              [q1 EXCEPT !.wrote = IF g.upsert THEN @ \cup {"MarketData"}
                                   ELSE @]]
         /\ UNCHANGED <<portfolio, assets, txlog, nextId, spent,
                        ioVars, syncVars>>

\* one asset: prisma.asset.update({id}, {currentPrice}) returns the row as
\* stored; a throw is caught and the asset is returned unchanged
updateAssetPrices_update(r, j, failed) ==
  /\ Job(r, j) /\ j.pc = "update"
  /\ LET s == AssetUpdate(Store, j.asset.id,
                [AssetById(assets, j.asset.id) EXCEPT
                   !.currentPrice = j.price], failed)
         row == IF s.ok THEN AssetById(s.assets, j.asset.id) ELSE j.asset
     IN  /\ Commit(s)
         /\ req' = [req EXCEPT ![r] =
              [SetJob(req[r], j,
                      JobDone(j, row, IF s.ok THEN "" ELSE "update")) EXCEPT
                 !.wrote = @ \cup Wrote(s)]]
         /\ UNCHANGED <<marketData, spent, ioVars, syncVars>>

\* after Promise.all: totalValue from the returned rows and the cash read
\* at the start, prisma.portfolio.update({totalValue}) and the response
updateAssetPrices_portfolioUpdate(r, failed) ==
  /\ req[r].pc = "prices"
  /\ \A j \in req[r].jobs : j.pc = "done"
  /\ LET q == req[r]
         totalValue == SumValue({j.asset : j \in q.jobs}) + q.cash
         s == PortfolioUpdate(Store, q.portfolioId, 0,
                totalValue - portfolio[q.portfolioId].totalValue, failed)
     IN  /\ Commit(s)
         /\ req' = [req EXCEPT ![r] =
              [Answered(q, IF s.ok THEN "OK" ELSE "Internal") EXCEPT
                 !.wrote = @ \cup Wrote(s), !.fault = failed]]
         /\ UNCHANGED <<marketData, spent, ioVars, syncVars>>

(* --------------------------- websocketService -------------------------- *)
UserRoom(u) == <<"user", u>>

PortfolioRoom(p) == <<"portfolio", p>>

\* socket.emit('error', {message})
ErrorEvent(message) ==
  [event |-> "error", message |-> message, portfolioId |-> "", n |-> 0,
   cash |-> 0]

\* the payload of portfolio:update: the portfolio row as read; n tells the
\* calls of emitPortfolioUpdate for the portfolio apart
UpdateEvent(p, n) ==
  [event |-> "portfolio:update", message |-> "", portfolioId |-> p, n |-> n,
   cash |-> portfolio[p].cash]

\* io.to(room).emit(ev): every connected socket in the room receives ev
Emit(socks, room, ev) ==
  [s \in Sessions |->
     IF socks[s].connected /\ room \in socks[s].rooms
     THEN [socks[s] EXCEPT !.inbox = @ (+) SetToBag({ev})]
     ELSE socks[s]]

\* io.use and io.on('connection'): the token names user u, the socket gets
\* the user id and joins the room of the user
connection(s, u) ==
  /\ ~sockets[s].connected
  /\ sockets' = [sockets EXCEPT ![s] =
       [NoSocket EXCEPT !.connected = TRUE, !.userId = u,
                        !.rooms = {UserRoom(u)}]]
  /\ UNCHANGED <<portfolio, assets, txlog, marketData, nextId, req, spent,
                 published, syncVars>>

\* socket.on('subscribe:portfolio'): verifyPortfolioAccess is called and its
\* promise is pending
subscribe_portfolio(s, p) ==
  /\ sockets[s].connected
  /\ sockets' = [sockets EXCEPT ![s].pending = @ (+) SetToBag({p}),
                               ![s].left = @ \ {p}]
  /\ UNCHANGED <<portfolio, assets, txlog, marketData, nextId, req, spent,
                 published, syncVars>>

\* the portfolio looked up by id alone
verifyPortfolioAccess_anyUser(userId, p, failed) ==
  ~failed /\ p \in DOMAIN portfolio

\* verifyPortfolioAccess: prisma.portfolio.findFirst({id, userId}); a throw
\* is caught and gives false
verifyPortfolioAccess(userId, p, failed) ==
  ~failed /\ portfolio[p].userId = userId

\* .then(hasAccess => ...): the socket joins the room of the portfolio, or
\* gets the error event
verifyPortfolioAccess_then(s, p, failed) ==
  /\ BagIn(p, sockets[s].pending)
  /\ LET hasAccess == verifyPortfolioAccess(sockets[s].userId, p, failed) IN
     sockets' = [sockets EXCEPT ![s] =
       [@ EXCEPT !.pending = @ (-) SetToBag({p}),
                 !.rooms = IF hasAccess THEN @ \cup {PortfolioRoom(p)} ELSE @,
                 !.verified = IF hasAccess THEN @ \cup {p} ELSE @,
                 !.inbox = IF hasAccess THEN @
                           ELSE @ (+) SetToBag({ErrorEvent("Access denied to this portfolio")})]]
  /\ UNCHANGED <<portfolio, assets, txlog, marketData, nextId, req, spent,
                 published, syncVars>>

\* socket.on('unsubscribe:portfolio'): socket.leave, whether the socket is
\* in the room or not
unsubscribe_portfolio(s, p) ==
  /\ sockets[s].connected
  /\ sockets' = [sockets EXCEPT ![s].rooms = @ \ {PortfolioRoom(p)},
                               ![s].left = @ \cup {p}]
  /\ UNCHANGED <<portfolio, assets, txlog, marketData, nextId, req, spent,
                 published, syncVars>>

\* emitPortfolioUpdate(portfolioId): prisma.portfolio.findUnique, then one
\* emit to the room of the portfolio and one to the room of its user; a
\* throw is caught and logged
emitPortfolioUpdate(p, failed) ==
  /\ ~failed
  /\ LET ev == UpdateEvent(p, published[p] + 1) IN
     sockets' = Emit(Emit(sockets, PortfolioRoom(p), ev),
                     UserRoom(portfolio[p].userId), ev)
  /\ published' = [published EXCEPT ![p] = @ + 1]
  /\ UNCHANGED <<portfolio, assets, txlog, marketData, nextId, req, spent,
                 syncVars>>

(* --------------------------- marketDataService ------------------------- *)
\* the symbols the sync loop tracks, in list order
TRACKED_SYMBOLS == <<"XYZ", "ABC">>

\* fetchAllMarketData is called, by startMarketDataUpdates ("start"), by
\* the setInterval callback ("tick") or by the handler refreshMarketData
\* ("refresh"): results = [], the loop takes the first symbol and
\* fetchMarketData issues axios.get for it
NewPass(origin) ==
  [origin |-> origin, i |-> 1, pc |-> "axiosGet", price |-> 0,
   results |-> <<>>, attempts |-> <<TRACKED_SYMBOLS[1]>>]

\* the for loop of fetchAllMarketData goes on: axios.get is issued for the
\* next symbol, or, after the last symbol, results is returned
NextSymbol(pass) ==
  IF pass.i = Len(TRACKED_SYMBOLS)
  THEN [pass EXCEPT !.pc = "done", !.price = 0]
  ELSE [pass EXCEPT !.i = @ + 1, !.pc = "axiosGet", !.price = 0,
                    !.attempts = Append(@, TRACKED_SYMBOLS[pass.i + 1])]

\* the throw of fetchMarketData leaves the loop: the catch around the loop
\* rethrows and the pass is over
fetchAllMarketData_catch_rethrow(pass) ==
  [pass EXCEPT !.pc = "raised", !.price = 0]

\* catch (error) inside the loop: the error is logged and the loop goes on
\* with the next symbol, without the delay
fetchAllMarketData_catch(pass) == NextSymbol(pass)

\* io.emit('marketUpdate', marketData): every connected socket receives it
MarketUpdateEvent(symbol, price) ==
  [event |-> "marketUpdate", message |-> symbol, portfolioId |-> "", n |-> 0,
   cash |-> price]

io_emit(socks, ev) ==
  [s \in Sessions |->
     IF socks[s].connected
     THEN [socks[s] EXCEPT !.inbox = @ (+) SetToBag({ev})]
     ELSE socks[s]]

\* the schedule of an earlier start is left running
startMarketDataUpdates_noClear ==
  /\ passes' = Append(passes, NewPass("start"))
  /\ updateInterval' = Len(passes) + 1
  /\ timers' = timers \cup {Len(passes) + 1}
  /\ stopped' = FALSE
  /\ UNCHANGED <<portfolio, assets, txlog, marketData, nextId, req, spent,
                 ioVars>>

\* startMarketDataUpdates: clearInterval of the stored timer if there is
\* one, the initial fetchAllMarketData (not awaited), setInterval; the new
\* timer gets a fresh id
startMarketDataUpdates ==
  /\ passes' = Append(passes, NewPass("start"))
  /\ updateInterval' = Len(passes) + 1
  /\ timers' = (IF updateInterval # 0 THEN timers \ {updateInterval}
                ELSE timers) \cup {Len(passes) + 1}
  /\ stopped' = FALSE
  /\ UNCHANGED <<portfolio, assets, txlog, marketData, nextId, req, spent,
                 ioVars>>

\* stopMarketDataUpdates: clearInterval of the stored timer if there is one;
\* updateInterval keeps the cleared timer
stopMarketDataUpdates ==
  /\ timers' = IF updateInterval # 0 THEN timers \ {updateInterval}
               ELSE timers
  /\ stopped' = TRUE
  /\ UNCHANGED <<portfolio, assets, txlog, marketData, nextId, req, spent,
                 ioVars, updateInterval, passes>>

\* the callback of setInterval runs for timer t, every 5 minutes while t is
\* active: fetchAllMarketData is called
setInterval_callback(t) ==
  /\ t \in timers
  /\ passes' = Append(passes, NewPass("tick"))
  /\ UNCHANGED <<portfolio, assets, txlog, marketData, nextId, req, spent,
                 ioVars, updateInterval, timers, stopped>>

\* the handler refreshMarketData of an authenticated request:
\* fetchAllMarketData is called; the response is sent when it returns
refreshMarketData ==
  /\ passes' = Append(passes, NewPass("refresh"))
  /\ UNCHANGED <<portfolio, assets, txlog, marketData, nextId, req, spent,
                 ioVars, updateInterval, timers, stopped>>

\* fetchMarketData of pass k: the provider answers.  A payload with a price
\* goes on to the upsert; a payload without price ('Invalid data format'),
\* one without '10. change percent' (.replace on undefined) and a rejected
\* request throw, and fetchMarketData rethrows
fetchMarketData_axiosGet(k, answer, price) ==
  /\ k \in DOMAIN passes /\ passes[k].pc = "axiosGet"
  /\ passes' = [passes EXCEPT ![k] =
       IF answer = "ok" THEN [@ EXCEPT !.pc = "upsert", !.price = price]
       ELSE fetchAllMarketData_catch(@)]
  /\ UNCHANGED <<portfolio, assets, txlog, marketData, nextId, req, spent,
                 ioVars, updateInterval, timers, stopped>>

\* fetchMarketData of pass k: prisma.marketData.upsert, io.emit and the
\* return; back in the loop results.push and the delay starts.  A throw of
\* the upsert is rethrown
fetchMarketData_upsert(k, failed) ==
  /\ k \in DOMAIN passes /\ passes[k].pc = "upsert"
  /\ LET pass == passes[k]
         symbol == TRACKED_SYMBOLS[pass.i]
     IN  /\ passes' = [passes EXCEPT ![k] =
              IF failed THEN fetchAllMarketData_catch(pass)
              ELSE [pass EXCEPT !.pc = "delay", !.price = 0,
                                !.results = Append(@, symbol)]]
         /\ marketData' = IF failed THEN marketData
                          ELSE Upsert(symbol, pass.price)
         /\ sockets' = IF failed THEN sockets
                       ELSE io_emit(sockets,
                                    MarketUpdateEvent(symbol, pass.price))
  /\ UNCHANGED <<portfolio, assets, txlog, nextId, req, spent, published,
                 updateInterval, timers, stopped>>

\* setTimeout(resolve, 1000) of pass k fires: the loop goes on
fetchAllMarketData_delay(k) ==
  /\ k \in DOMAIN passes /\ passes[k].pc = "delay"
  /\ passes' = [passes EXCEPT ![k] = NextSymbol(@)]
  /\ UNCHANGED <<portfolio, assets, txlog, marketData, nextId, req, spent,
                 ioVars, updateInterval, timers, stopped>>

(* ------------------------------ environment ---------------------------- *)
\* the response has been sent; the slot takes the next request
Finish(r) ==
  /\ req[r].pc = "done"
  /\ Unchanged(r, IdleReq)

\* d minutes pass (while no stored quote is fresh, time passing changes
\* nothing)
Tick(d) ==
  /\ \E sy \in Symbols : IsFresh(marketData[sy])
  /\ marketData' = [sy \in Symbols |->
       IF ~marketData[sy].found THEN marketData[sy]
       ELSE [marketData[sy] EXCEPT !.age =
               IF @ + d < FreshMinutes THEN @ + d ELSE FreshMinutes]]
  /\ UNCHANGED <<portfolio, assets, txlog, nextId, req, spent,
                 ioVars, syncVars>>

(* ---------------------------- specification ---------------------------- *)
\* the store after createPortfolio for each portfolio with body.cash =
\* InitialCash: the row with cash = totalValue = cash and one DEPOSIT record
Init ==
  /\ portfolio = [p \in Portfolios |->
                    [userId |-> Owner[p], cash |-> InitialCash,
                     totalValue |-> InitialCash]]
  /\ assets = {}
  /\ txlog = SetToBag({TxRec("DEPOSIT", 1, InitialCash, InitialCash,
                              Owner[p], p, 0) : p \in Portfolios})
  /\ marketData = [s \in Symbols |-> NoData]
  /\ nextId = 1
  /\ req = [r \in Reqs |-> IdleReq]
  /\ spent = [p \in Portfolios |-> 0]
  /\ sockets = [s \in Sessions |-> NoSocket]
  /\ published = [p \in Portfolios |-> 0]
  /\ updateInterval = 0
  /\ timers = {}
  /\ passes = <<>>
  /\ stopped = FALSE

\* who sends requests against which portfolio
Targets == {<<"u1", "p1">>}

\* the asset ids a sell request may name: the rows and one id of no row
AssetIds == {a.id : a \in assets} \cup {nextId}

\* the steps of a price lookup and of the clock
PriceSteps ==
  \/ \E r \in Reqs : getMarketPrice_findUnique(r)
  \/ \E r \in Reqs, an \in Answers, pr \in ProviderPrices, f \in BOOLEAN :
       getMarketPrice_axiosGet(r, an, pr, f)
  \/ Tick(FreshMinutes)

\* the steps of a buy in flight
BuySteps ==
  \/ \E r \in Reqs, a \in assets \cup {NoAsset} : buyAsset_findAsset(r, a)
  \/ \E r \in Reqs, f \in 0..3 : buyAsset_transaction(r, f)

\* the steps of a sell in flight
SellSteps ==
  \/ \E r \in Reqs : sellAsset_findAsset(r)
  \/ \E r \in Reqs, f \in 0..3 : sellAsset_transaction(r, f)

\* the steps of a deposit or a withdrawal in flight
CashSteps ==
  \/ \E r \in Reqs : addCashToPortfolio_update(r, FALSE)
  \/ \E r \in Reqs : addCashToPortfolio_create(r, FALSE)
  \/ \E r \in Reqs : withdrawCashFromPortfolio_update(r, FALSE)
  \/ \E r \in Reqs : withdrawCashFromPortfolio_create(r, FALSE)

\* the steps of a revaluation in flight
RevalueSteps ==
  \/ \E r \in Reqs : \E j \in req[r].jobs : updateAssetPrices_findUnique(r, j)
  \/ \E r \in Reqs, an \in Answers, pr \in ProviderPrices :
       \E j \in req[r].jobs : updateAssetPrices_axiosGet(r, j, an, pr, FALSE)
  \/ \E r \in Reqs, f \in BOOLEAN :
       \E j \in req[r].jobs : updateAssetPrices_update(r, j, f)
  \/ \E r \in Reqs, f \in BOOLEAN : updateAssetPrices_portfolioUpdate(r, f)

\* no request is being served
Quiet == \A r \in Reqs : req[r].pc \in {"idle", "done"}

\* requests of the owner against one portfolio, served concurrently
Next ==
  \/ \E r \in Reqs, <<u, p>> \in Targets, sy \in BuySymbols \cup {""},
        ty \in Types, n \in Quantities, pr \in Prices :
       Short(p, MaxLog) /\ buyAsset_findPortfolio(r, u, p, sy, ty, n, pr)
  \/ \E r \in Reqs, <<u, p>> \in Targets, a \in AssetIds,
        n \in Quantities, pr \in Prices :
       Short(p, MaxLog) /\ sellAsset_findPortfolio(r, u, p, a, n, pr)
  \/ \E r \in Reqs, <<u, p>> \in Targets, am \in Amounts :
       /\ Short(p, MaxLog) /\ portfolio[p].cash + am <= MaxCash
       /\ addCashToPortfolio_findPortfolio(r, u, p, am)
  \/ \E r \in Reqs, <<u, p>> \in Targets, am \in Amounts :
       Short(p, MaxLog) /\ withdrawCashFromPortfolio_findPortfolio(r, u, p, am)
  \/ PriceSteps
  \/ BuySteps
  \/ SellSteps
  \/ CashSteps
  \/ \E r \in Reqs : Finish(r)

Spec == Init /\ [][Next]_vars

\* buy and sell requests of the owner against one portfolio, served
\* concurrently
NextTrade ==
  \/ \E r \in Reqs, <<u, p>> \in Targets, sy \in BuySymbols \cup {""},
        ty \in Types, n \in Quantities, pr \in Prices :
       Short(p, MaxTradeLog) /\ buyAsset_findPortfolio(r, u, p, sy, ty, n, pr)
  \/ \E r \in Reqs, <<u, p>> \in Targets, a \in AssetIds,
        n \in Quantities, pr \in Prices :
       Short(p, MaxTradeLog) /\ sellAsset_findPortfolio(r, u, p, a, n, pr)
  \/ PriceSteps
  \/ BuySteps
  \/ SellSteps
  \/ \E r \in Reqs : Finish(r)

SpecTrade == Init /\ [][NextTrade]_vars

\* the same requests, each sent after the previous one was answered
NextSeq ==
  \/ \E r \in Reqs, <<u, p>> \in Targets, sy \in BuySymbols \cup {""},
        ty \in Types, n \in Quantities, pr \in Prices :
       /\ Quiet /\ Short(p, MaxSeqLog)
       /\ buyAsset_findPortfolio(r, u, p, sy, ty, n, pr)
  \/ \E r \in Reqs, <<u, p>> \in Targets, a \in AssetIds,
        n \in Quantities, pr \in Prices :
       /\ Quiet /\ Short(p, MaxSeqLog)
       /\ sellAsset_findPortfolio(r, u, p, a, n, pr)
  \/ \E r \in Reqs, <<u, p>> \in Targets, am \in Amounts :
       /\ Quiet /\ Short(p, MaxSeqLog) /\ portfolio[p].cash + am <= MaxCash
       /\ addCashToPortfolio_findPortfolio(r, u, p, am)
  \/ \E r \in Reqs, <<u, p>> \in Targets, am \in Amounts :
       /\ Quiet /\ Short(p, MaxSeqLog)
       /\ withdrawCashFromPortfolio_findPortfolio(r, u, p, am)
  \/ PriceSteps
  \/ BuySteps
  \/ SellSteps
  \/ CashSteps
  \/ \E r \in Reqs : Finish(r)

SpecSeq == Init /\ [][NextSeq]_vars

\* buy requests only, each sent after the previous one was answered
NextBuys ==
  \/ \E r \in Reqs, <<u, p>> \in Targets, sy \in BuySymbols \cup {""},
        ty \in Types, n \in Quantities, pr \in Prices :
       /\ Quiet /\ Short(p, MaxSeqLog)
       /\ buyAsset_findPortfolio(r, u, p, sy, ty, n, pr)
  \/ PriceSteps
  \/ BuySteps
  \/ \E r \in Reqs : Finish(r)

SpecBuys == Init /\ [][NextBuys]_vars

\* buy, sell and revalue requests of every user against every portfolio,
\* each sent after the previous one was answered
NextAccess ==
  \/ \E r \in {"r1"}, u \in Users, p \in Portfolios, n \in AccessQuantities :
       /\ Quiet /\ Short(p, MaxAccessLog)
       /\ buyAsset_findPortfolio(r, u, p, "XYZ", "STOCK", n, 1)
  \/ \E r \in {"r1"}, u \in Users, p \in Portfolios, a \in AssetIds,
        n \in AccessQuantities :
       /\ Quiet /\ Short(p, MaxAccessLog)
       /\ sellAsset_findPortfolio(r, u, p, a, n, 1)
  \/ \E r \in {"r1"}, u \in Users, p \in Portfolios :
       Quiet /\ updateAssetPrices_findPortfolio(r, u, p)
  \/ BuySteps
  \/ SellSteps
  \/ RevalueSteps
  \/ \E r \in Reqs : Finish(r)

SpecAccess == Init /\ [][NextAccess]_vars

\* minutes that pass in one step of the clock of SpecLedger
TickMinutes == {1, 4}

\* every ledger operation of the owner against one portfolio, each request
\* sent after the previous one was answered, with a clock that passes the
\* freshness limit in two steps
NextLedger ==
  \/ \E <<u, p>> \in Targets, n \in Quantities, pr \in Prices :
       /\ Quiet /\ Short(p, MaxLedgerLog)
       /\ buyAsset_findPortfolio("r1", u, p, "XYZ", "STOCK", n, pr)
  \/ \E <<u, p>> \in Targets, a \in AssetIds, n \in Quantities, pr \in Prices :
       /\ Quiet /\ Short(p, MaxLedgerLog)
       /\ sellAsset_findPortfolio("r1", u, p, a, n, pr)
  \/ \E <<u, p>> \in Targets, am \in Amounts :
       /\ Quiet /\ Short(p, MaxLedgerLog) /\ portfolio[p].cash + am <= MaxCash
       /\ addCashToPortfolio_findPortfolio("r1", u, p, am)
  \/ \E <<u, p>> \in Targets, am \in Amounts :
       /\ Quiet /\ Short(p, MaxLedgerLog)
       /\ withdrawCashFromPortfolio_findPortfolio("r1", u, p, am)
  \/ \E <<u, p>> \in Targets :
       Quiet /\ updateAssetPrices_findPortfolio("r1", u, p)
  \/ \E r \in Reqs : getMarketPrice_findUnique(r)
  \/ \E r \in Reqs, an \in Answers, pr \in ProviderPrices, f \in BOOLEAN :
       getMarketPrice_axiosGet(r, an, pr, f)
  \/ \E d \in TickMinutes : Tick(d)
  \/ BuySteps
  \/ SellSteps
  \/ CashSteps
  \/ RevalueSteps
  \/ \E r \in Reqs : Finish(r)

SpecLedger == Init /\ [][NextLedger]_vars

\* the quantity of the buy requests of SpecRevalue
RevalueQuantities == {1}

\* revaluations of one portfolio in one slot, served concurrently with the
\* buys of two symbols and the deposits of the owner in the other slot
NextRevalue ==
  \/ \E <<u, p>> \in Targets, sy \in Symbols, n \in RevalueQuantities :
       /\ Short(p, MaxRevalueLog)
       /\ buyAsset_findPortfolio("r2", u, p, sy, "STOCK", n, 1)
  \/ \E <<u, p>> \in Targets :
       /\ Short(p, MaxRevalueLog) /\ portfolio[p].cash + 1 <= MaxCash
       /\ addCashToPortfolio_findPortfolio("r2", u, p, 1)
  \/ \E <<u, p>> \in Targets : updateAssetPrices_findPortfolio("r1", u, p)
  \/ BuySteps
  \/ \E r \in Reqs : addCashToPortfolio_update(r, FALSE)
  \/ \E r \in Reqs : addCashToPortfolio_create(r, FALSE)
  \/ RevalueSteps
  \/ Tick(FreshMinutes)
  \/ \E r \in Reqs : Finish(r)

SpecRevalue == Init /\ [][NextRevalue]_vars

\* the sessions of the owner and of another user, their subscribe and
\* unsubscribe messages for one portfolio and the calls of
\* emitPortfolioUpdate for it, over the store as created
NextSocket ==
  \/ \E s \in Sessions, u \in Users : connection(s, u)
  \/ \E s \in Sessions, <<u, p>> \in Targets :
       /\ BagCardinality(sockets[s].pending)
            + BagCardinality(sockets[s].inbox) < MaxInbox
       /\ subscribe_portfolio(s, p)
  \/ \E s \in Sessions, p \in Portfolios, f \in BOOLEAN :
       verifyPortfolioAccess_then(s, p, f)
  \/ \E s \in Sessions, <<u, p>> \in Targets : unsubscribe_portfolio(s, p)
  \/ \E <<u, p>> \in Targets, f \in BOOLEAN :
       published[p] < MaxPublish /\ emitPortfolioUpdate(p, f)

SpecSocket == Init /\ [][NextSocket]_vars

\* body.price of the requests of SpecPrice: negative, missing or zero, and
\* positive
SuppliedPrices == {0 - 1, 0, 1}

\* buy and sell requests of the owner with any number as the price, each
\* sent after the previous one was answered
NextPrice ==
  \/ \E <<u, p>> \in Targets, n \in Quantities, pr \in SuppliedPrices :
       /\ Quiet /\ Short(p, MaxPriceLog)
       /\ buyAsset_findPortfolio("r1", u, p, "XYZ", "STOCK", n, pr)
  \/ \E <<u, p>> \in Targets, a \in AssetIds, n \in Quantities,
        pr \in SuppliedPrices :
       /\ Quiet /\ Short(p, MaxPriceLog)
       /\ sellAsset_findPortfolio("r1", u, p, a, n, pr)
  \/ PriceSteps
  \/ BuySteps
  \/ SellSteps
  \/ \E r \in Reqs : Finish(r)

SpecPrice == Init /\ [][NextPrice]_vars

\* deposits and withdrawals of the owner, each sent after the previous one
\* was answered; every write may fail
NextCash ==
  \/ \E <<u, p>> \in Targets, am \in Amounts :
       /\ Quiet /\ Short(p, MaxCashLog) /\ portfolio[p].cash + am <= MaxCash
       /\ addCashToPortfolio_findPortfolio("r1", u, p, am)
  \/ \E <<u, p>> \in Targets, am \in Amounts :
       /\ Quiet /\ Short(p, MaxCashLog)
       /\ withdrawCashFromPortfolio_findPortfolio("r1", u, p, am)
  \/ \E r \in Reqs, f \in BOOLEAN : addCashToPortfolio_update(r, f)
  \/ \E r \in Reqs, f \in BOOLEAN : addCashToPortfolio_create(r, f)
  \/ \E r \in Reqs, f \in BOOLEAN : withdrawCashFromPortfolio_update(r, f)
  \/ \E r \in Reqs, f \in BOOLEAN : withdrawCashFromPortfolio_create(r, f)
  \/ \E r \in Reqs : Finish(r)

SpecCash == Init /\ [][NextCash]_vars

\* the steps of the calls of fetchAllMarketData in flight
PassStep(k) ==
  \/ \E an \in Answers, pr \in ProviderPrices :
       fetchMarketData_axiosGet(k, an, pr)
  \/ \E f \in BOOLEAN : fetchMarketData_upsert(k, f)
  \/ fetchAllMarketData_delay(k)

\* the sync loop is started and stopped, its timers fire, refreshes are
\* requested, and the passes run, in any order
NextSync ==
  \/ Len(passes) < MaxPasses /\ startMarketDataUpdates
  \/ stopMarketDataUpdates
  \/ \E t \in timers : Len(passes) < MaxPasses /\ setInterval_callback(t)
  \/ Len(passes) < MaxPasses /\ refreshMarketData
  \/ \E k \in 1..MaxPasses : PassStep(k)

SpecSync == Init /\ [][NextSync]_vars

\* the provider answers or the request fails, the store answers and the
\* timeout fires: every pass in flight takes its next step
SpecSyncFair == SpecSync /\ \A k \in 1..MaxPasses : WF_vars(PassStep(k))

(* ------------------------------- claims -------------------------------- *)
\* the slot answers its request in this step
Responds(r) == req[r].pc # "done" /\ req'[r].pc = "done"

\* the prisma.$transaction of a buy / of a sell runs in this step
BuyUnit(r) == req[r].op = "buy" /\ req[r].pc = "transaction" /\ Responds(r)

SellUnit(r) == req[r].op = "sell" /\ req[r].pc = "transaction" /\ Responds(r)

\* the rows of portfolio p
HoldingsOf(as, p) == {a \in as : a.portfolioId = p}

\* the log is the old log and one more record of this request, for the
\* holding id
AppendedFor(q, type, id) ==
  txlog' = txlog (+) SetToBag({TxRec(type, q.quantity, q.currentPrice,
                                     q.currentPrice * q.quantity, q.userId,
                                     q.portfolioId, id)})

Appended(q, type) == \E id \in 0..nextId : AppendedFor(q, type, id)

\* the holding id is stored as the unit of request q leaves it: bought or
\* sold in part at the request's price, or sold completely and removed
HoldingWritten(q, id) ==
  IF q.op = "sell" /\ q.asset.quantity = q.quantity
  THEN AssetById(assets', id).id = 0
  ELSE /\ AssetById(assets', id).id = id
       /\ AssetById(assets', id).currentPrice = q.currentPrice
       /\ AssetById(assets', id).portfolioId = q.portfolioId

Rejections == {"InvalidInput", "NotFound", "InsufficientFunds",
               "InsufficientHoldings"}

\* C1: under any interleaving of buy, sell, deposit and withdraw requests
\* the committed cash of every portfolio is >= 0
C1_CashNeverNegative == \A p \in Portfolios : portfolio[p].cash >= 0

\* C2: a sell commits only if the stored quantity of the holding is >= the
\* quantity sold at commit time, and no stored quantity is negative
C2_SellWithinHolding ==
  [][\A r \in Reqs :
       (SellUnit(r) /\ req'[r].res = "OK") =>
         /\ AssetById(assets, req[r].assetId).quantity >= req[r].quantity
         /\ \A a \in assets' : a.quantity >= 0]_vars

\* C3: the unit of a buy or of a sell either commits the cash change, the
\* holding change and the transaction record together, or, when a write
\* inside it fails, leaves the store as it was
C3_AllOrNothing ==
  [][\A r \in Reqs :
       (BuyUnit(r) \/ SellUnit(r)) =>
         LET q == req[r]
             amount == q.currentPrice * q.quantity
         IN  \/ /\ req'[r].res = "OK"
                /\ portfolio'[q.portfolioId].cash =
                     portfolio[q.portfolioId].cash
                       + (IF q.op = "buy" THEN 0 - amount ELSE amount)
                /\ \E id \in 1..nextId :
                     /\ HoldingWritten(q, id)
                     /\ AppendedFor(q, IF q.op = "buy" THEN "BUY" ELSE "SELL",
                                    id)
             \/ /\ req'[r].res = "Internal"
                /\ UNCHANGED <<portfolio, assets, txlog>>]_vars

\* a write inside the unit of a buy has failed
C3_Witness ==
  \E r \in Reqs : /\ req[r].pc = "done" /\ req[r].op = "buy"
                  /\ req[r].res = "Internal" /\ req[r].fault

\* C4: after buy requests sent one after another the cash is the initial
\* cash minus the cost of the accepted buys; a buy is accepted only if its
\* cost is at most the current cash, and a buy rejected as InsufficientFunds
\* leaves cash, holdings and log as they were
C4_BuySequenceCash ==
  [][/\ Quiet' => \A p \in Portfolios :
                    portfolio'[p].cash = InitialCash - spent'[p]
     /\ \A r \in Reqs :
          /\ (req'[r].op = "buy" /\ req'[r].pc = "findAsset"
                /\ req[r].pc # "findAsset") =>
               req'[r].currentPrice * req'[r].quantity
                 <= portfolio[req'[r].portfolioId].cash
          /\ (Responds(r) /\ req'[r].res = "InsufficientFunds") =>
               UNCHANGED <<portfolio, assets, txlog>>]_vars

\* one buy was accepted and a later one rejected for its cost
C4_Witness ==
  \E r \in Reqs : /\ req[r].pc = "done" /\ req[r].res = "InsufficientFunds"
                  /\ spent[req[r].portfolioId] > 0

\* C5: a committed buy of q at price p adds q to the holding the portfolio
\* has of the symbol, with the weighted average price and currentPrice p,
\* or creates the holding with quantity q and both prices p if there is none
C5_BuyMerge ==
  [][\A r \in Reqs :
       (BuyUnit(r) /\ req'[r].res = "OK") =>
         LET q == req[r]
             held == AssetsBySymbol(assets, q.portfolioId, q.symbol)
         IN  IF held # {}
             THEN \E a \in held :
                    LET b == AssetById(assets', a.id) IN
                    /\ assets' \ {b} = assets \ {a}
                    /\ b.quantity = a.quantity + q.quantity
                    /\ b.purchasePrice =
                         Frac(a.purchasePrice[1] * a.quantity
                                + q.currentPrice * q.quantity
                                    * a.purchasePrice[2],
                              a.purchasePrice[2] * (a.quantity + q.quantity))
                    /\ b.currentPrice = q.currentPrice
             ELSE \E b \in assets' :
                    /\ assets' = assets \cup {b}
                    /\ b.quantity = q.quantity
                    /\ b.purchasePrice = <<q.currentPrice, 1>>
                    /\ b.currentPrice = q.currentPrice]_vars

\* C6: a sell of q from a holding of Q leaves quantity Q - q and the sale
\* price as currentPrice when q < Q, and no row when q = Q
C6_SellLeaves ==
  [][\A r \in Reqs :
       (SellUnit(r) /\ ~req'[r].fault) =>
         LET q == req[r]
             a == AssetById(assets, q.assetId)
             b == AssetById(assets', q.assetId)
         IN  IF q.quantity < a.quantity
             THEN /\ b.quantity = a.quantity - q.quantity
                  /\ b.currentPrice = q.currentPrice
             ELSE b.id = 0]_vars

\* C7: every sell whose checks pass commits: the cash grows by price x
\* quantity and one SELL record with that quantity, price and amount is added
C7_SellCommits ==
  [][\A r \in Reqs :
       (SellUnit(r) /\ ~req'[r].fault) =>
         LET q == req[r] IN
         /\ req'[r].res = "OK"
         /\ portfolio'[q.portfolioId].cash =
              portfolio[q.portfolioId].cash + q.currentPrice * q.quantity
         /\ Appended(q, "SELL")]_vars

\* C8: every stored holding has quantity > 0
C8_HoldingsPositive == \A a \in assets : a.quantity > 0

\* the request that takes this step, as sent
Acting(r) == IF req[r].pc = "idle" THEN req'[r] ELSE req[r]

\* a step changes the row, the holdings or the log of portfolio p only if
\* it is a step of a request of the owner of p
OwnerOnly ==
  \A p \in Portfolios :
    (\/ portfolio'[p] # portfolio[p]
     \/ HoldingsOf(assets', p) # HoldingsOf(assets, p)
     \/ LogOf(p)' # LogOf(p)) =>
      \E r \in Reqs : req'[r] # req[r] /\ Acting(r).userId = Owner[p]

NotOwner(q) == Owner[q.portfolioId] # q.userId

\* C9 as stated: a buy, sell or revalue request against a portfolio of
\* another user fails with NotFound, and no request changes a portfolio of
\* another user
C9_NotOwnerNotFound ==
  [][/\ \A r \in Reqs :
          (Responds(r) /\ NotOwner(req'[r])) => req'[r].res = "NotFound"
     /\ OwnerOnly]_vars

\* C9 as amended: such a request fails with NotFound, or with InvalidInput
\* when its input is invalid; no request changes a portfolio of another user
C9_NotOwnerRejected ==
  [][/\ \A r \in Reqs :
          (Responds(r) /\ NotOwner(req'[r])) =>
            IF req'[r].op \in {"buy", "sell"}
                 /\ (req'[r].quantity <= 0
                       \/ (req'[r].op = "buy" /\ req'[r].symbol = ""))
            THEN req'[r].res = "InvalidInput"
            ELSE req'[r].res = "NotFound"
     /\ OwnerOnly]_vars

\* a sell against the holding of another user's portfolio was answered
\* NotFound
C9_Witness ==
  \E r \in Reqs :
    /\ req[r].pc = "done" /\ req[r].op = "sell" /\ NotOwner(req[r])
    /\ req[r].res = "NotFound"
    /\ HoldingsOf(assets, req[r].portfolioId) # {}

\* C10 as stated: a buy or sell rejected by validation or authorization has
\* written nothing, to no table
C10_RejectedWroteNothing ==
  \A r \in Reqs :
    (req[r].pc = "done" /\ req[r].op \in {"buy", "sell"}
       /\ req[r].res \in Rejections) => req[r].wrote = {}

\* C10 as amended: such a request has written no Portfolio, Asset or
\* Transaction row; only a buy rejected as InsufficientFunds may have
\* written the MarketData row, when it resolved its price
C10_RejectedWroteNoLedger ==
  \A r \in Reqs :
    (req[r].pc = "done" /\ req[r].op \in {"buy", "sell"}
       /\ req[r].res \in Rejections) =>
      /\ req[r].wrote \subseteq {"MarketData"}
      /\ req[r].wrote # {} =>
           (req[r].op = "buy" /\ req[r].res = "InsufficientFunds")

\* a buy was rejected as InsufficientFunds after its price lookup stored
\* the quote
C10_Witness ==
  \E r \in Reqs : /\ req[r].pc = "done" /\ req[r].op = "buy"
                  /\ req[r].res = "InsufficientFunds"
                  /\ req[r].wrote = {"MarketData"}

\* C11: no step changes or removes a transaction record: every record of
\* the log is in the log after the step, as many times as before
C11_LogAppendOnly ==
  [][\A t \in BagToSet(txlog) : CopiesIn(t, txlog') >= CopiesIn(t, txlog)]_vars

\* a sell of the whole holding has run its unit while the log held the BUY
\* record of that holding
C11_Witness ==
  \E r \in Reqs :
    /\ req[r].pc = "done" /\ req[r].op = "sell" /\ req[r].res = "Internal"
    /\ ~req[r].fault
    /\ \E t \in BagToSet(txlog) : t.type = "BUY" /\ t.assetId # 0

\* C12: a buy or sell that has committed and been answered has been
\* followed by a portfolio:update published for its portfolio
C12_CommitNotifies ==
  \A r \in Reqs :
    (req[r].pc = "done" /\ req[r].op \in {"buy", "sell"} /\ req[r].res = "OK")
      => published[req[r].portfolioId] > 0

\* the job of a revaluation that takes this step, after the step
JobAfter(r) == CHOOSE j \in req'[r].jobs : j \notin req[r].jobs

\* C13: a price lookup that finds a stored quote less than 5 minutes old
\* returns its price without a provider call and without a write; a lookup
\* that finds no quote or an older one calls the provider, and the lookup is
\* over after that one call
C13_OracleFreshness ==
  [][\A r \in Reqs :
       /\ (req[r].pc = "findUnique" /\ req'[r] # req[r]) =>
            LET md == marketData[req[r].symbol] IN
            IF md.found /\ md.age < FreshMinutes
            THEN /\ req'[r].pc \notin {"findUnique", "axiosGet"}
                 /\ \/ req'[r].currentPrice = md.lastPrice
                    \/ req'[r].res = "InsufficientFunds"
                 /\ marketData' = marketData
                 /\ req'[r].wrote = req[r].wrote
            ELSE req'[r].pc = "axiosGet"
       /\ (req[r].pc = "axiosGet" /\ req'[r] # req[r]) =>
            req'[r].pc \notin {"findUnique", "axiosGet"}
       /\ \A j \in req[r].jobs :
            (req[r].pc = "prices" /\ j \notin req'[r].jobs) =>
              LET md == marketData[j.asset.symbol]
                  k == JobAfter(r)
              IN  /\ j.pc = "findUnique" =>
                       IF md.found /\ md.age < FreshMinutes
                       THEN /\ k.pc = "update" /\ k.price = md.lastPrice
                            /\ marketData' = marketData
                            /\ req'[r].wrote = req[r].wrote
                       ELSE k.pc = "axiosGet"
                  /\ j.pc = "axiosGet" =>
                       k.pc \notin {"findUnique", "axiosGet"}]_vars

\* a buy sent without a price got the price of a quote stored 4 minutes
\* before, and has written nothing
C13_Witness ==
  \E r \in Reqs :
    /\ req[r].op = "buy" /\ req[r].pc = "findAsset"
    /\ req[r].currentPrice \in ProviderPrices /\ req[r].wrote = {}
    /\ marketData[req[r].symbol].age = 4

\* C14: when the provider call of a lookup fails (the request fails, or the
\* payload has no price or is malformed), the lookup returns the price of
\* the stored quote if there is one, and fails with PriceUnavailable only if
\* there is none
C14_StaleFallback ==
  [][\A r \in Reqs :
       (/\ req[r].pc = "axiosGet" /\ req'[r] # req[r]
        /\ "MarketData" \notin req'[r].wrote /\ ~req'[r].fault) =>
         IF req[r].marketData.found
         THEN /\ req'[r].res # "PriceUnavailable"
              /\ \/ req'[r].currentPrice = req[r].marketData.lastPrice
                 \/ req'[r].res = "InsufficientFunds"
         ELSE req'[r].res = "PriceUnavailable"]_vars

\* the last step of a revaluation, which writes totalValue and answers
RevalueUnit(r) ==
  req[r].op = "revalue" /\ req[r].pc = "prices" /\ Responds(r)

\* C15: the totalValue a revaluation writes is the cash plus the sum of
\* currentPrice x quantity over the holdings, as stored for the portfolio
\* at the moment of the write
C15_TotalValue ==
  [][\A r \in Reqs :
       (RevalueUnit(r) /\ req'[r].res = "OK") =>
         LET p == req[r].portfolioId IN
         portfolio'[p].totalValue =
           portfolio'[p].cash + SumValue(HoldingsOf(assets', p))]_vars

\* a verification of portfolio p for session s ends in this step
Verified(s, p) ==
  CopiesIn(p, sockets'[s].pending) < CopiesIn(p, sockets[s].pending)

\* C16: a session is in the room of a portfolio only if a subscribe of the
\* session has verified its user as the owner; a subscribe for a portfolio
\* of another user leaves the rooms as they are and sends one error event,
\* to that session only
C16_RoomOnlyForOwner ==
  [][/\ \A s \in Sessions, p \in Portfolios :
          PortfolioRoom(p) \in sockets'[s].rooms =>
            /\ p \in sockets'[s].verified
            /\ portfolio'[p].userId = sockets'[s].userId
     /\ \A s \in Sessions, p \in Portfolios :
          (Verified(s, p) /\ portfolio[p].userId # sockets[s].userId) =>
            /\ sockets'[s].rooms = sockets[s].rooms
            /\ sockets'[s].inbox = sockets[s].inbox (+)
                 SetToBag({ErrorEvent("Access denied to this portfolio")})
            /\ \A t \in Sessions \ {s} : sockets'[t] = sockets[t]]_vars

\* one session was denied the portfolio of another user while the session
\* of the owner is in the room of that portfolio
C16_Witness ==
  \E s, t \in Sessions, p \in Portfolios :
    /\ sockets[s].connected /\ sockets[s].userId # portfolio[p].userId
    /\ BagIn(ErrorEvent("Access denied to this portfolio"), sockets[s].inbox)
    /\ PortfolioRoom(p) \in sockets[t].rooms

\* C17: no session has received the portfolio:update of one publish more
\* than once
C17_NoDuplicateDelivery ==
  \A s \in Sessions :
    \A ev \in BagToSet(sockets[s].inbox) :
      ev.event = "portfolio:update" => CopiesIn(ev, sockets[s].inbox) <= 1

\* C18: a portfolio never has two holding rows of one symbol
C18_OneRowPerSymbol ==
  \A a, b \in assets :
    (a.portfolioId = b.portfolioId /\ a.symbol = b.symbol) => a = b

RECURSIVE SumQuantity(_)
\* the sum of the quantities of a set of rows
SumQuantity(rows) ==
  IF rows = {} THEN 0
  ELSE LET a == CHOOSE x \in rows : TRUE
       IN  a.quantity + SumQuantity(rows \ {a})

RECURSIVE SumLogged(_, _)
\* the sum of quantity x copies over the records of bag log that are in
\* the set recs
SumLogged(log, recs) ==
  IF recs = {} THEN 0
  ELSE LET t == CHOOSE x \in recs : TRUE
       IN  t.quantity * CopiesIn(t, log) + SumLogged(log, recs \ {t})

\* the records of the given type in the log of portfolio p for symbol sy
Logged(p, sy, type) ==
  {t \in BagToSet(txlog) :
     /\ t.portfolioId = p /\ t.type = type
     /\ AssetById(assets, t.assetId).symbol = sy}

\* C19: for every portfolio and symbol, the stored quantity is the sum of
\* the quantities of the BUY records minus that of the SELL records
C19_UnitConservation ==
  \A p \in Portfolios, sy \in Symbols :
    SumQuantity(AssetsBySymbol(assets, p, sy)) =
      SumLogged(txlog, Logged(p, sy, "BUY"))
        - SumLogged(txlog, Logged(p, sy, "SELL"))

\* C20: in a revaluation, a price lookup that fails for one holding leaves
\* the stored row of the holding and the jobs of the other holdings as they
\* are and does not end the revaluation; the other holdings get their new
\* price; and the revaluation writes totalValue from the rows its jobs
\* returned and answers 200
C20_LookupFailureTolerated ==
  [][\A r \in Reqs :
       (req[r].op = "revalue" /\ req[r].pc = "prices") =>
         /\ \A j \in req[r].jobs :
              (j.pc = "axiosGet" /\ j \notin req'[r].jobs) =>
                /\ req'[r].pc = "prices"
                /\ \E k \in req'[r].jobs :
                     /\ req'[r].jobs \ {k} = req[r].jobs \ {j}
                     /\ k.caught = "getMarketPrice" =>
                          /\ k.pc = "done" /\ k.asset = j.asset
                          /\ assets' = assets
         /\ \A j \in req[r].jobs :
              (j.pc = "update" /\ j \notin req'[r].jobs) =>
                \E k \in req'[r].jobs :
                  /\ req'[r].jobs \ {k} = req[r].jobs \ {j}
                  /\ k.caught = "" =>
                       AssetById(assets', j.asset.id).currentPrice = j.price
         /\ (RevalueUnit(r) /\ ~req'[r].fault) =>
              /\ req'[r].res = "OK"
              /\ portfolio'[req[r].portfolioId].totalValue =
                   req[r].cash + SumValue({j.asset : j \in req[r].jobs})]_vars

\* a revaluation of two holdings is about to write totalValue after the
\* lookup for one holding failed and the other holding got the new price
C20_Witness ==
  \E r \in Reqs :
    /\ req[r].op = "revalue" /\ req[r].pc = "prices"
    /\ \A j \in req[r].jobs : j.pc = "done"
    /\ \E j, k \in req[r].jobs :
         /\ j.caught = "getMarketPrice"
         /\ k.caught = "" /\ k.asset.symbol # j.asset.symbol
         /\ k.asset.currentPrice \in ProviderPrices
         /\ AssetById(assets, k.asset.id).currentPrice = k.asset.currentPrice

\* the calls of fetchAllMarketData made by the sync loop
LoopPasses(ps) == {k \in DOMAIN ps : ps[k].origin # "refresh"}

\* C21: at most one schedule is active, and it is the one of the latest
\* start; after a stop no schedule is active until the next start
C21_OneSchedule ==
  /\ Cardinality(timers) <= 1
  /\ timers \subseteq {updateInterval}
  /\ stopped => timers = {}

\* the loop was started twice and the schedule of the second start is
\* active
C21_Witness ==
  /\ Cardinality({k \in DOMAIN passes : passes[k].origin = "start"}) >= 2
  /\ timers = {updateInterval}

\* C22: after a stop and until the next start, the schedule starts no pass
\* and no pass of the loop issues the provider call of another symbol
C22_StopObserved ==
  [][(stopped /\ stopped') =>
       \A k \in LoopPasses(passes') :
         /\ k \in DOMAIN passes
         /\ passes'[k].attempts = passes[k].attempts]_vars

\* the symbols of a pass whose refresh has returned: they were attempted
\* before the symbol in progress, or the pass is in its delay or done
IsSubSeq(a, b) ==
  \E f \in [1..Len(a) -> 1..Len(b)] :
    /\ \A i \in 1..Len(a) : a[i] = b[f[i]]
    /\ \A i, j \in 1..Len(a) : i < j => f[i] < f[j]

\* C23: a pass attempts the tracked symbols in list order, each once, and
\* goes through the whole list whatever refreshes fail; it never raises;
\* its results are the symbols whose refresh stored a quote, in order; and
\* every pass started comes to its end
C23_PassAttemptsAll ==
  /\ [](\A k \in DOMAIN passes :
          LET pass == passes[k] IN
          /\ pass.pc # "raised"
          /\ pass.attempts = SubSeq(TRACKED_SYMBOLS, 1, pass.i)
          /\ pass.pc = "done" => pass.attempts = TRACKED_SYMBOLS
          /\ IsSubSeq(pass.results, pass.attempts))
  /\ [][\A k \in DOMAIN passes :
          (passes'[k] # passes[k] /\ passes[k].pc \in {"axiosGet", "upsert"}) =>
            LET pass == passes[k]
                symbol == TRACKED_SYMBOLS[pass.i]
                stored == /\ pass.pc = "upsert"
                          /\ marketData'[symbol] =
                               [found |-> TRUE, lastPrice |-> pass.price,
                                age |-> 0]
                          /\ passes'[k].pc = "delay"
            IN  IF stored
                THEN passes'[k].results = Append(pass.results, symbol)
                ELSE /\ passes'[k].results = pass.results
                     /\ marketData' = marketData]_vars
  /\ \A k \in 1..MaxPasses :
       (k \in DOMAIN passes) ~> (k \in DOMAIN passes /\ passes[k].pc = "done")

\* a pass is over whose refresh of the first symbol failed and whose
\* refresh of the second symbol stored the quote
C23_Witness ==
  \E k \in DOMAIN passes :
    /\ passes[k].pc = "done"
    /\ passes[k].results = <<TRACKED_SYMBOLS[2]>>

\* C24: the provider call of the next symbol of a pass is issued only when
\* the delay after the previous symbol has elapsed
C24_DelayBetweenCalls ==
  [][\A k \in DOMAIN passes :
       Len(passes'[k].attempts) > Len(passes[k].attempts) =>
         passes[k].pc = "delay"]_vars

\* C26: at most one pass is in progress
C26_OnePassAtATime ==
  Cardinality({k \in DOMAIN passes : passes[k].pc # "done"}) <= 1

\* C25: a session that has sent subscribe and then unsubscribe for a
\* portfolio, and no subscribe for it since, is not in the room of the
\* portfolio once no verification for it is pending
C25_UnsubscribeWins ==
  \A s \in Sessions, p \in Portfolios :
    (p \in sockets[s].left /\ ~BagIn(p, sockets[s].pending)) =>
      PortfolioRoom(p) \notin sockets[s].rooms

\* the log has one more record of the given type after the step, and the
\* price and quantity of that record account for the change of the cash
RecordedAs(type, change) ==
  \E t \in BagToSet(txlog') :
    /\ CopiesIn(t, txlog') = CopiesIn(t, txlog) + 1
    /\ t.type = type
    /\ t.price * t.quantity = change

\* C27: whatever price the caller supplies, a committed buy does not
\* increase the cash and a committed sell does not decrease it, and the
\* price of the record written is the price the cash was changed with
C27_PriceSign ==
  [][\A r \in Reqs :
       LET p == req[r].portfolioId IN
       /\ (BuyUnit(r) /\ req'[r].res = "OK") =>
            /\ portfolio'[p].cash <= portfolio[p].cash
            /\ RecordedAs("BUY", portfolio[p].cash - portfolio'[p].cash)
       /\ (SellUnit(r) /\ req'[r].res = "OK") =>
            /\ portfolio'[p].cash >= portfolio[p].cash
            /\ RecordedAs("SELL", portfolio'[p].cash - portfolio[p].cash)]_vars

RECURSIVE SumAmount(_, _)
\* the sum of totalAmount x copies over the records of bag log that are in
\* the set recs, DEPOSIT and SELL counted positive, BUY and WITHDRAWAL
\* negative
SumAmount(log, recs) ==
  IF recs = {} THEN 0
  ELSE LET t == CHOOSE x \in recs : TRUE
           sign == IF t.type \in {"DEPOSIT", "SELL"} THEN 1 ELSE 0 - 1
       IN  sign * t.totalAmount * CopiesIn(t, log) + SumAmount(log, recs \ {t})

\* C28: the cash of every portfolio is the sum of totalAmount over its
\* DEPOSIT and SELL records minus the sum over its BUY and WITHDRAWAL
\* records; stated for the states in which no request is being served, so
\* that no write in flight accounts for a difference
C28_CashReconciles ==
  Quiet => \A p \in Portfolios :
             portfolio[p].cash = SumAmount(LogOf(p), DOMAIN LogOf(p))

====
